---- MODULE Spec2Model ----
(***************************************************************************)
(* Model of the self-update mechanism of launcher.py: UpdateManager        *)
(* (check_for_updates, compare_versions, download_update, create_backup,   *)
(* apply_update, restore_backup, cleanup_temp_files) and the handlers of   *)
(* SakuraLauncher that drive it (check_updates_on_start,                   *)
(* manual_check_updates, on_update_available, show_update_dialog,          *)
(* start_update_process, perform_update, on_update_finished).              *)
(*                                                                         *)
(* Strings that the code parses (version strings) are sequences of         *)
(* one-character strings; files are modelled by their content tag.         *)
(***************************************************************************)
EXTENDS Integers, Sequences, FiniteSets, TLC

\* ------------------------------------------------------------------------
\* Bounds of the model
\* ------------------------------------------------------------------------
MaxEntries == 2     \* longest archive (number of zip entries)
MaxManual  == 1     \* manual (forced) checks per run of the process
MaxTicks   == 2     \* clock advances per run of the process
MaxParts   == 3     \* longest dotted version drawn for compare_versions
MaxComp    == 1     \* largest small component drawn for compare_versions
MaxBlocks  == 3     \* most blocks one watched download is read in
MaxNames   == 4     \* longest archive extracted on its own

\* ------------------------------------------------------------------------
\* Program constants
\* ------------------------------------------------------------------------
VERSION        == <<"0", ".", "0", ".", "7">>
CHECK_INTERVAL == 3600
UPDATE_FILE    == "launcher_update.zip"

Absent == "absent"      \* content tag of a file that does not exist

\* ------------------------------------------------------------------------
\* compare_versions and the string operations it uses
\* ------------------------------------------------------------------------
Digits == {"0", "1", "2", "3", "4", "5", "6", "7", "8", "9"}

DigitVal(c) ==
  CASE c = "0" -> 0 [] c = "1" -> 1 [] c = "2" -> 2 [] c = "3" -> 3
    [] c = "4" -> 4 [] c = "5" -> 5 [] c = "6" -> 6 [] c = "7" -> 7
    [] c = "8" -> 8 [] c = "9" -> 9

\* str.split('.'): the segments between dots, empty segments included
RECURSIVE SplitFrom(_, _, _)
SplitFrom(s, i, cur) ==
  IF i > Len(s) THEN <<cur>>
  ELSE IF s[i] = "." THEN <<cur>> \o SplitFrom(s, i + 1, <<>>)
  ELSE SplitFrom(s, i + 1, Append(cur, s[i]))

Split(s) == SplitFrom(s, 1, <<>>)

\* int(segment): the decimal value; an empty segment or one holding a
\* character that is not a digit raises ValueError, shown here as -1
RECURSIVE IntFrom(_, _, _)
IntFrom(seg, i, acc) ==
  IF i > Len(seg) THEN acc
  ELSE IntFrom(seg, i + 1, acc * 10 + DigitVal(seg[i]))

ParseInt(seg) ==
  IF seg = <<>> \/ \E i \in 1..Len(seg) : seg[i] \notin Digits
  THEN -1
  ELSE IntFrom(seg, 1, 0)

\* Mutant of MapIntRaises: a segment that is no number raises nothing
MapIntNeverRaises(v) == FALSE

\* list(map(int, v.split('.'))) raises ValueError
MapIntRaises(v) ==
  LET s == Split(v) IN \E i \in 1..Len(s) : ParseInt(s[i]) < 0

MapInt(v) == LET s == Split(v) IN [i \in 1..Len(s) |-> ParseInt(s[i])]

\* while len(parts) < n: parts.append(0)
RECURSIVE PadZeros(_, _)
PadZeros(parts, n) ==
  IF Len(parts) < n THEN PadZeros(Append(parts, 0), n) ELSE parts

\* for i in range(len(v1_parts)): first position that differs decides
RECURSIVE CompareFrom(_, _, _)
CompareFrom(p1, p2, i) ==
  IF i > Len(p1) THEN 0
  ELSE IF p1[i] > p2[i] THEN 1
  ELSE IF p1[i] < p2[i] THEN -1
  ELSE CompareFrom(p1, p2, i + 1)

\* The result of a call: the value returned, or an exception raised
Returns(x) == [raised |-> FALSE, value |-> x]
Raises == [raised |-> TRUE, value |-> 0]

\* Mutant of compare_versions: only the common prefix is compared
compare_versions_prefix(v1, v2) ==
  IF MapIntRaises(v1) \/ MapIntRaises(v2) THEN Raises
  ELSE LET n  == IF Len(MapInt(v1)) < Len(MapInt(v2))
                 THEN Len(MapInt(v1)) ELSE Len(MapInt(v2))
       IN Returns(CompareFrom(SubSeq(MapInt(v1), 1, n),
                              SubSeq(MapInt(v2), 1, n), 1))

\* Mutant of compare_versions: a version that does not parse compares greater
compare_versions_lenient(v1, v2) ==
  IF MapIntRaises(v1) \/ MapIntRaises(v2) THEN Returns(1)
  ELSE LET q1 == PadZeros(MapInt(v1), Len(MapInt(v2)))
           q2 == PadZeros(MapInt(v2), Len(q1))
       IN Returns(CompareFrom(q1, q2, 1))

compare_versions(v1, v2) ==
  IF MapIntRaises(v1) \/ MapIntRaises(v2) THEN Raises
  ELSE LET q1 == PadZeros(MapInt(v1), Len(MapInt(v2)))
           q2 == PadZeros(MapInt(v2), Len(q1))
       IN Returns(CompareFrom(q1, q2, 1))

\* ------------------------------------------------------------------------
\* Data
\* ------------------------------------------------------------------------
V0010 == <<"0", ".", "0", ".", "1", "0">>
V01   == <<"0", ".", "1">>
V0070 == <<"0", ".", "0", ".", "7", ".", "0">>
V000  == <<"0", ".", "0", ".", "0">>
V1x   == <<"1", ".", "x">>

\* dict.get(key, default)
Get(d, k, default) == IF k \in DOMAIN d THEN d[k] ELSE default

\* The JSON documents the update server may answer with (a key may be missing)
Manifests ==
  { [version |-> V0010, download_url |-> "url-10"],
    [version |-> V01, changelog |-> "notes-1"],
    [version |-> V0070, changelog |-> "notes-7", download_url |-> "url-7"],
    [changelog |-> "notes-0", download_url |-> "url-0"],
    [version |-> V1x, changelog |-> "notes-x", download_url |-> "url-x"] }

\* What urlopen + json.loads can produce (an error is shown as a document
\* with the single key "error")
Responses == {[error |-> "URLError"], [error |-> "FormatError"]} \cup Manifests

\* files_to_backup of create_backup
files_to_backup ==
  <<"launcher.py", "assets/logo.png", "assets/fondo.png", "assets/background.png">>

Tracked == {files_to_backup[i] : i \in 1..Len(files_to_backup)}

\* Paths of the installation directory: the tracked files and one other file
Paths == Tracked \cup {"README.md"}

\* Entry names an update archive may hold, in archive order
ArchiveEntries == <<"launcher.py", "assets/logo.png", "README.md">>

\* The sub-lists of s with at most n elements
RECURSIVE SubLists(_, _)
SubLists(s, n) ==
  IF s = <<>> \/ n = 0 THEN {<<>>}
  ELSE SubLists(Tail(s), n) \cup {<<Head(s)>> \o q : q \in SubLists(Tail(s), n - 1)}

\* zip archives: the list of entry names (namelist)
Archives == SubLists(ArchiveEntries, MaxEntries)

NoFiles == [p \in Paths |-> Absent]

\* The installation directory the process starts in: launcher.py is the
\* running script, the assets are optional
InitInstall ==
  [p \in Paths |-> IF p \in {"launcher.py", "assets/fondo.png"}
                   THEN "old" ELSE Absent]

\* Backup directories left by an earlier run: empty, or an earlier snapshot
InitBackups ==
  {NoFiles,
   [p \in Paths |-> IF p \in {"launcher.py", "assets/background.png"}
                    THEN "prev" ELSE Absent]}

ErrDownload == "Error en la descarga"
ErrNoUrl    == "No hay URL de descarga disponible"
ErrNoTemp   == "[Errno 2] No such file or directory: temp_updates"
ErrRemove   == "[Errno 13] Permission denied"
ErrUrl      == "urlopen error timed out"
ErrNoInfo   == "[Errno 2] No such file or directory: update_info.json"
ErrBadZip   == "File is not a zip file"
ErrExtract  == "Bad CRC-32 for file"
MsgUpToDate == "Ya tienes la ultima version"
DefaultChangelog == "Sin informacion de cambios"

StartTime == CHECK_INTERVAL + 1

\* Contents of last_check.txt
NoStamp  == [kind |-> "missing", t |-> 0]
BadStamp == [kind |-> "unreadable", t |-> 0]
Stamp(t) == [kind |-> "time", t |-> t]

\* Contents of update_info.json: no file, or the one record saved
NoPending == <<>>

\* ------------------------------------------------------------------------
\* State
\* ------------------------------------------------------------------------
VARIABLES
  inst,        \* installation directory: path -> content tag or Absent
  backupDir,   \* TRUE iff the backup directory exists
  backup,      \* files under the backup directory: path -> content or Absent
  tmpDir,      \* TRUE iff the directory temp_updates exists
  tmp,         \* the set of file names in temp_updates
  pending,     \* update_info.json: NoPending or <<record>>
  lastCheck,   \* last_check.txt: NoStamp, BadStamp or Stamp(t)
  now,         \* the clock (seconds)
  ticks,       \* number of clock advances so far
  ck,          \* the check threads: "auto" (timer) and "manual" (button)
  manualRuns,  \* number of manual checks started
  autoStarted, \* the start-up timer has fired
  ap,          \* the apply thread (perform_update) of the current cycle
  dialogs,     \* open update dialogs, innermost exec_ last
  restartScheduled,  \* QTimer.singleShot(2000, restart_launcher) was called
  applied,     \* some apply cycle has reached Done
  cmp,         \* input and result of a stand-alone compare_versions call
  dl           \* a stand-alone urlretrieve with report_progress as its hook

vars == <<inst, backupDir, backup, tmpDir, tmp, pending, lastCheck, now, ticks,
          ck, manualRuns, autoStarted, ap, dialogs, restartScheduled, applied,
          cmp, dl>>

fsVars == <<inst, backupDir, backup, tmpDir, tmp>>
ckVars == <<ck, manualRuns, autoStarted>>
uiVars == <<dialogs, restartScheduled>>
clockVars == <<now, ticks>>

CheckThreads == {"auto", "manual"}

\* A check thread: where it is, and what its run has done so far
IdleCheck ==
  [pc |-> "idle", force |-> FALSE, data |-> <<>>, outcome |-> "none",
   nstatus |-> 0, avail |-> <<>>, fin |-> <<>>, fetched |-> FALSE,
   wrote |-> FALSE, stamp |-> <<>>]

\* The apply thread: where it is, and what its cycle has done so far; log
\* lists the signals the thread has emitted (status_changed by the place
\* that emits it, update_progress, update_finished), oldest first; prog
\* lists the values of update_progress emitted during the extraction
IdleApply ==
  [pc |-> "idle", shown |-> <<>>, url |-> "", ver |-> <<>>, resaved |-> FALSE,
   archive |-> <<>>, i |-> 0, backupOk |-> "none", pre |-> NoFiles,
   extracted |-> FALSE, cleaned |-> "none", restored |-> "none",
   err |-> "", fin |-> <<>>, log |-> <<>>, prog |-> <<>>]

NoCmp == [a |-> <<>>, b |-> <<>>, v1 |-> <<>>, v2 |-> <<>>, res |-> <<>>]

\* No download is being watched
NoDl == [pc |-> "idle", bs |-> 0, total |-> 0, left |-> 0, count |-> 0,
         progress |-> <<>>]

\* pc = "done" marks a thread that returned in the step just taken: its
\* record shows what the run did, and the next step of the program finds
\* the thread gone
Settled(c) ==
  [t \in CheckThreads |-> IF c[t].pc = "done" THEN IdleCheck ELSE c[t]]

SettledAp(a) == IF a.pc = "done" THEN IdleApply ELSE a

\* A step that belongs to no check thread
ChecksRest ==
  /\ ck' = Settled(ck)
  /\ UNCHANGED <<manualRuns, autoStarted>>

\* A step that belongs to no apply thread
ApplyRest == ap' = SettledAp(ap)

InitFiles ==
  /\ inst = InitInstall
  /\ backupDir = TRUE
  /\ backup \in InitBackups
  /\ tmpDir = TRUE
  /\ tmp \in {{}, {"leftover.part"}}
  /\ pending = NoPending

InitThreads ==
  /\ now = StartTime
  /\ ticks = 0
  /\ ck = [t \in CheckThreads |-> IdleCheck]
  /\ manualRuns = 0
  /\ autoStarted = FALSE
  /\ ap = IdleApply
  /\ dialogs = <<>>
  /\ restartScheduled = FALSE
  /\ applied = FALSE
  /\ cmp = NoCmp
  /\ dl = NoDl

Init ==
  /\ InitFiles
  /\ InitThreads
  /\ lastCheck \in {NoStamp, Stamp(StartTime)}

\* ------------------------------------------------------------------------
\* SakuraLauncher: the handlers that run on the main thread.  A signal a
\* worker thread emits is handled by its slot in the step that emits it.
\* ------------------------------------------------------------------------
FinishedEvent(src, ok, msg) == [src |-> src, success |-> ok, message |-> msg]

AvailEvent(v, c) == [version |-> v, changelog |-> c]

\* on_update_available -> show_update_dialog: a dialog is opened (exec_)
OnUpdateAvailable(ds, ev) == Append(ds, ev)

\* Mutant of OnUpdateFinished: the restart is scheduled whatever the outcome
OnUpdateFinishedAlways(rs, ev) == TRUE

\* on_update_finished: QTimer.singleShot(2000, restart_launcher) iff success
OnUpdateFinished(rs, ev) == rs \/ ev.success

\* ------------------------------------------------------------------------
\* UpdateManager: the last-check timestamp
\* ------------------------------------------------------------------------
\* Mutant of should_check_update: "at least" instead of "more than"
should_check_update_ge(last, t) ==
  IF last.kind = "missing" THEN TRUE
  ELSE IF last.kind = "unreadable" THEN TRUE
  ELSE t - last.t >= CHECK_INTERVAL

should_check_update(last, t) ==
  IF last.kind = "missing" THEN TRUE
  ELSE IF last.kind = "unreadable" THEN TRUE
  ELSE t - last.t > CHECK_INTERVAL

\* Mutant of update_last_check: the timestamp is left as it is
update_last_check_skip(last, t) == last

update_last_check(last, t) == Stamp(t)

\* ------------------------------------------------------------------------
\* UpdateManager.check_for_updates, one thread per call
\* ------------------------------------------------------------------------
\* Mutant of CheckBegin: a forced run is throttled like an automatic one
CheckBeginThrottlesAll(t, force) ==
  /\ Settled(ck)[t].pc = "idle"
  /\ IF ~should_check_update(lastCheck, now)
     THEN ck' = [Settled(ck) EXCEPT ![t] =
                   [IdleCheck EXCEPT !.pc = "done", !.force = force,
                                     !.outcome = "throttled"]]
     ELSE ck' = [Settled(ck) EXCEPT ![t] =
                   [IdleCheck EXCEPT !.pc = "fetch", !.force = force,
                                     !.nstatus = 2]]

\* Entry of check_for_updates(force): the throttle, then the first two
\* status messages
CheckBegin(t, force) ==
  /\ Settled(ck)[t].pc = "idle"
  /\ IF ~force /\ ~should_check_update(lastCheck, now)
     THEN ck' = [Settled(ck) EXCEPT ![t] =
                   [IdleCheck EXCEPT !.pc = "done", !.force = force,
                                     !.outcome = "throttled"]]
     ELSE ck' = [Settled(ck) EXCEPT ![t] =
                   [IdleCheck EXCEPT !.pc = "fetch", !.force = force,
                                     !.nstatus = 2]]

\* check_updates_on_start: the single-shot timer starts the automatic check
CheckUpdatesOnStart ==
  /\ ~autoStarted
  /\ autoStarted' = TRUE
  /\ CheckBegin("auto", FALSE)
  /\ ApplyRest
  /\ UNCHANGED <<fsVars, pending, lastCheck, clockVars, manualRuns,
                 uiVars, applied, cmp, dl>>

\* manual_check_updates: the button starts a forced check; the button cannot
\* be reached while an update dialog is open
ManualCheckUpdates ==
  /\ manualRuns < MaxManual
  /\ dialogs = <<>>
  /\ manualRuns' = manualRuns + 1
  /\ CheckBegin("manual", TRUE)
  /\ ApplyRest
  /\ UNCHANGED <<fsVars, pending, lastCheck, clockVars, autoStarted,
                 uiVars, applied, cmp, dl>>

\* The record written to update_info.json ('files' and 'timestamp' are
\* written too but never read by the program)
UpdateInfo(data) ==
  [remote_version |-> Get(data, "version", V000),
   changelog      |-> Get(data, "changelog", DefaultChangelog),
   download_url   |-> Get(data, "download_url", "")]

\* A raised exception: one status message, return False
CheckFailed(t, r, outcome, nst) ==
  /\ ck' = [Settled(ck) EXCEPT ![t].pc = "done", ![t].outcome = outcome,
                      ![t].data = r, ![t].fetched = TRUE,
                      ![t].nstatus = @ + nst]
  /\ ApplyRest
  /\ UNCHANGED <<pending, lastCheck, uiVars>>

\* The branch "compare_versions(remote_version, VERSION) > 0"
CheckNewer(t, r) ==
  LET ev == AvailEvent(Get(r, "version", V000),
                       Get(r, "changelog", DefaultChangelog))
  IN /\ pending' = <<UpdateInfo(r)>>
     /\ dialogs' = OnUpdateAvailable(dialogs, ev)
     /\ lastCheck' = update_last_check(lastCheck, now)
     /\ ck' = [Settled(ck) EXCEPT ![t].pc = "done", ![t].outcome = "newer",
                         ![t].data = r, ![t].fetched = TRUE,
                         ![t].nstatus = @ + 2, ![t].wrote = TRUE,
                         ![t].avail = Append(@, ev), ![t].stamp = <<now>>]
     /\ ap' = [SettledAp(ap) EXCEPT
                 !.resaved = (@ \/ SettledAp(ap).cleaned # "none")]
     /\ UNCHANGED restartScheduled

\* The else branch: up to date
CheckNotNewer(t, r) ==
  LET ev == FinishedEvent("check", TRUE, MsgUpToDate)
  IN /\ restartScheduled' = IF ck[t].force
                            THEN OnUpdateFinished(restartScheduled, ev)
                            ELSE restartScheduled
     /\ lastCheck' = update_last_check(lastCheck, now)
     /\ ck' = [Settled(ck) EXCEPT ![t].pc = "done", ![t].outcome = "notnewer",
                         ![t].data = r, ![t].fetched = TRUE,
                         ![t].nstatus = @ + 2,
                         ![t].fin = IF ck[t].force THEN Append(@, ev) ELSE @,
                         ![t].stamp = <<now>>]
     /\ ApplyRest
     /\ UNCHANGED <<pending, dialogs>>

\* Mutant of IsNewer: an equal version counts as newer
IsNewerOrEqual(c) == c >= 0

\* The test "compare_versions(remote_version, VERSION) > 0"
IsNewer(c) == c > 0

\* urlopen returns or raises; the manifest is decoded, compared and acted on
CheckFetch(t) ==
  /\ ck[t].pc = "fetch"
  /\ \E r \in Responses :
       IF Get(r, "error", "") = "URLError" THEN CheckFailed(t, r, "conn", 1)
       ELSE IF Get(r, "error", "") = "FormatError"
       THEN CheckFailed(t, r, "format", 1)
       ELSE LET c == compare_versions(Get(r, "version", V000), VERSION)
            IN IF c.raised THEN CheckFailed(t, r, "parse", 2)
               ELSE IF IsNewer(c.value) THEN CheckNewer(t, r)
               ELSE CheckNotNewer(t, r)
  /\ UNCHANGED <<fsVars, clockVars, manualRuns, autoStarted, applied, cmp, dl>>

\* The clock advances
Tick ==
  /\ ticks < MaxTicks
  /\ \E d \in {1, CHECK_INTERVAL} : now' = now + d
  /\ ticks' = ticks + 1
  /\ ChecksRest
  /\ ApplyRest
  /\ UNCHANGED <<fsVars, pending, lastCheck, uiVars, applied, cmp, dl>>

\* ------------------------------------------------------------------------
\* The update dialog
\* ------------------------------------------------------------------------
\* update_btn -> accept -> start_update_process: the perform_update thread
\* starts.  The user accepts a prompt only while no apply cycle is running.
StartUpdateProcess ==
  /\ dialogs # <<>>
  /\ SettledAp(ap).pc = "idle"
  /\ ap' = [IdleApply EXCEPT !.pc = "download",
                             !.shown = dialogs[Len(dialogs)].version,
                             !.pre = inst]
  /\ dialogs' = SubSeq(dialogs, 1, Len(dialogs) - 1)
  /\ ChecksRest
  /\ UNCHANGED <<fsVars, pending, lastCheck, clockVars,
                 restartScheduled, applied, cmp, dl>>

\* later_btn -> reject, cancel_btn -> close: the dialog closes, nothing else
DeclineUpdate ==
  /\ dialogs # <<>>
  /\ dialogs' = SubSeq(dialogs, 1, Len(dialogs) - 1)
  /\ ChecksRest
  /\ ApplyRest
  /\ UNCHANGED <<fsVars, pending, lastCheck, clockVars,
                 restartScheduled, applied, cmp, dl>>

\* ------------------------------------------------------------------------
\* perform_update: download_update, apply_update, update_finished.emit
\* ------------------------------------------------------------------------
\* Mutant of Finish: perform_update returns without emitting
FinishSilently(a, ok, msg) ==
  /\ ap' = [a EXCEPT !.pc = "done"]
  /\ UNCHANGED <<restartScheduled, applied>>

\* Mutant of Finish: a status message follows the finished event
FinishThenStatus(a, ok, msg) ==
  /\ ap' = [a EXCEPT !.pc = "done",
                     !.fin = Append(@, FinishedEvent("apply", ok, msg)),
                     !.log = @ \o <<"finished", "applied">>]
  /\ restartScheduled' =
       OnUpdateFinished(restartScheduled, FinishedEvent("apply", ok, msg))
  /\ applied' = (applied \/ ok)

\* perform_update emits update_finished(ok, msg) and returns
Finish(a, ok, msg) ==
  /\ ap' = [a EXCEPT !.pc = "done",
                     !.fin = Append(@, FinishedEvent("apply", ok, msg)),
                     !.log = Append(@, "finished")]
  /\ restartScheduled' =
       OnUpdateFinished(restartScheduled, FinishedEvent("apply", ok, msg))
  /\ applied' = (applied \/ ok)

\* Mutant of DownloadFails: apply_update is called all the same
DownloadFailsGoesOn(a) ==
  /\ ap' = [a EXCEPT !.pc = "backup"]
  /\ UNCHANGED <<restartScheduled, applied>>

\* "if not update_file": update_finished(False, "Error en la descarga") is
\* emitted and perform_update returns
DownloadFails(a) == Finish(a, FALSE, ErrDownload)

\* update_info.get('download_url') of the record read from update_info.json;
\* "" stands for a missing file, a missing key and an empty URL alike
DownloadUrl(pend) ==
  IF pend = NoPending THEN "" ELSE Get(pend[1], "download_url", "")

\* What download_update reports through status_changed when it stops before
\* the temporary directory is emptied
DownloadBlocked(pend) ==
  IF pend = NoPending THEN ErrNoInfo
  ELSE IF DownloadUrl(pend) = "" THEN ErrNoUrl
  ELSE ErrNoTemp

\* The signals of such a download_update: "Descargando actualizacion..."
\* is emitted once a URL was found
DownloadBlockedLog(pend) ==
  IF DownloadUrl(pend) = "" THEN <<"download-error">>
  ELSE <<"download-start", "download-error">>

\* download_update up to urlretrieve: read update_info.json, empty the
\* temporary directory
DownloadBegin ==
  /\ ap.pc = "download"
  /\ \/ /\ DownloadUrl(pending) = "" \/ ~tmpDir     \* no record, no URL,
        /\ DownloadFails([ap EXCEPT                  \* or listdir raises
                            !.err = DownloadBlocked(pending),
                            !.log = @ \o DownloadBlockedLog(pending)])
        /\ UNCHANGED tmp
     \/ /\ DownloadUrl(pending) # "" /\ tmpDir
        /\ tmp # {}                                  \* os.remove raises
        /\ DownloadFails([ap EXCEPT
                            !.err = ErrRemove,
                            !.log = @ \o <<"download-start", "download-error">>])
        /\ UNCHANGED tmp
     \/ /\ DownloadUrl(pending) # "" /\ tmpDir
        /\ tmp' = {}
        /\ ap' = [ap EXCEPT !.pc = "fetch", !.url = DownloadUrl(pending),
                            !.ver = pending[1].remote_version,
                            !.log = Append(@, "download-start")]
        /\ UNCHANGED <<restartScheduled, applied>>
  /\ ChecksRest
  /\ UNCHANGED <<inst, backupDir, backup, tmpDir, pending, lastCheck,
                 clockVars, dialogs, cmp, dl>>

\* urlretrieve(download_url, temp_file): the archive arrives, or an error
DownloadFetch ==
  /\ ap.pc = "fetch"
  /\ \/ \E a \in Archives :
          /\ tmp' = {UPDATE_FILE}
          /\ ap' = [ap EXCEPT !.pc = "backup", !.archive = a,
                              !.log = @ \o <<"download-progress",
                                             "download-done">>]
          /\ UNCHANGED <<restartScheduled, applied>>
     \/ /\ tmp' \in {{}, {UPDATE_FILE}}
        /\ DownloadFails([ap EXCEPT !.err = ErrUrl,
                                    !.log = Append(@, "download-error")])
  /\ ChecksRest
  /\ UNCHANGED <<inst, backupDir, backup, tmpDir, pending, lastCheck,
                 clockVars, dialogs, cmp, dl>>

\* Mutant of Snapshot: the copy loop stops after the first path
SnapshotFirst(files, n) ==
  [p \in Paths |-> IF n >= 1 /\ files_to_backup[1] = p
                   THEN files[p] ELSE Absent]

\* The backup after the copy loop of create_backup has handled the first n
\* paths of files_to_backup: a path that does not exist is skipped
Snapshot(files, n) ==
  [p \in Paths |-> IF \E k \in 1..n : files_to_backup[k] = p
                   THEN files[p] ELSE Absent]

\* Mutant of ClearBackup: the earlier snapshot is left in place
ClearBackupKeeps(b) == b

\* shutil.rmtree(backup_dir), os.makedirs(backup_dir): an empty directory
ClearBackup(b) == NoFiles

\* The backup directory b after the files of s were copied into it
CopyInto(b, s) == [p \in Paths |-> IF s[p] # Absent THEN s[p] ELSE b[p]]

\* Mutant of AfterBackup: a failed backup sends the thread to the error path
AfterBackupStrict(ok) == IF ok THEN "openzip" ELSE "restore"

\* Where apply_update goes once create_backup has returned: to the archive,
\* whatever the result ("if not self.create_backup(): status_changed.emit")
AfterBackup(ok) == "openzip"

\* The thread after create_backup has returned ok, with the signals of
\* apply_update and create_backup up to there
BackupReturns(ok) ==
  ap' = [ap EXCEPT !.pc = AfterBackup(ok),
                   !.backupOk = IF ok THEN "ok" ELSE "failed",
                   !.log = @ \o <<"apply-start", "backup-start">>
                             \o IF ok THEN <<"backup-ok">>
                                ELSE <<"backup-error", "no-backup">>]

\* create_backup, called first by apply_update; its failure is not fatal
CreateBackup ==
  /\ ap.pc = "backup"
  /\ \/ /\ backupDir                               \* rmtree raises
        /\ backup' = backup
        /\ backupDir' = backupDir
        /\ BackupReturns(FALSE)
     \/ /\ backup' = NoFiles                       \* makedirs raises
        /\ backupDir' = FALSE
        /\ BackupReturns(FALSE)
     \/ \E j \in 1..Len(files_to_backup) :         \* copy2 of file j raises
          /\ inst[files_to_backup[j]] # Absent
          /\ backup' = CopyInto(ClearBackup(backup), Snapshot(inst, j - 1))
          /\ backupDir' = TRUE
          /\ BackupReturns(FALSE)
     \/ /\ backup' = CopyInto(ClearBackup(backup),
                             Snapshot(inst, Len(files_to_backup)))
        /\ backupDir' = TRUE
        /\ BackupReturns(TRUE)
  /\ ChecksRest
  /\ UNCHANGED <<inst, tmpDir, tmp, pending, lastCheck, clockVars,
                 uiVars, applied, cmp, dl>>

\* zipfile.ZipFile(update_file) and namelist()
OpenArchive ==
  /\ ap.pc = "openzip"
  /\ \/ ap' = [ap EXCEPT !.pc = "extract", !.i = 0]
     \/ ap' = [ap EXCEPT !.pc = "restore", !.err = ErrBadZip,
                         !.log = Append(@, "apply-error")]
  /\ ChecksRest
  /\ UNCHANGED <<fsVars, pending, lastCheck, clockVars, uiVars,
                 applied, cmp, dl>>

\* Mutant of extract_progress: the entries before this one are counted
extract_progress_before(i, n) == (i * 100) \div n

\* "progress = int((i + 1) * 100 / len(file_list))" for the entry at index i
\* (from 0) of n
extract_progress(i, n) == ((i + 1) * 100) \div n

\* zip_ref.extract(file, script_dir) for the next entry
ExtractEntry ==
  /\ ap.pc = "extract"
  /\ ap.i < Len(ap.archive)
  /\ \/ /\ inst' = [inst EXCEPT ![ap.archive[ap.i + 1]] = "new"]
        /\ ap' = [ap EXCEPT !.i = ap.i + 1,
                            !.log = Append(@, "extract-progress"),
                            !.prog = Append(@, extract_progress(
                                                 ap.i, Len(ap.archive)))]
     \/ /\ inst' = inst
        /\ ap' = [ap EXCEPT !.pc = "restore", !.err = ErrExtract,
                            !.log = Append(@, "apply-error")]
  /\ ChecksRest
  /\ UNCHANGED <<backupDir, backup, tmpDir, tmp, pending, lastCheck,
                 clockVars, uiVars, applied, cmp, dl>>

\* cleanup_temp_files after the last entry; its exceptions are swallowed
CleanupTempFiles ==
  /\ ap.pc = "extract"
  /\ ap.i = Len(ap.archive)
  /\ \/ /\ tmpDir' = FALSE                         \* both removals succeed
        /\ tmp' = {}
        /\ pending' = NoPending
        /\ ap' = [ap EXCEPT !.pc = "readinfo", !.extracted = TRUE,
                            !.cleaned = "ok", !.log = Append(@, "cleaned")]
     \/ /\ tmpDir                                  \* rmtree raises
        /\ tmpDir' = TRUE
        /\ tmp' \in {tmp, {}}
        /\ pending' = pending
        /\ ap' = [ap EXCEPT !.pc = "readinfo", !.extracted = TRUE,
                            !.cleaned = "failed"]
     \/ /\ pending # NoPending                     \* os.remove raises
        /\ tmpDir' = FALSE
        /\ tmp' = {}
        /\ pending' = pending
        /\ ap' = [ap EXCEPT !.pc = "readinfo", !.extracted = TRUE,
                            !.cleaned = "failed"]
  /\ ChecksRest
  /\ UNCHANGED <<inst, backupDir, backup, lastCheck, clockVars,
                 uiVars, applied, cmp, dl>>

\* open(update_info_file) / json.load after the cleanup: the version saved
\* in the record, or FileNotFoundError
ReadVersion(pend) ==
  IF pend # NoPending THEN Returns(pend[1].remote_version) ELSE Raises

\* The end of the try block of apply_update: the status "Actualizacion
\* aplicada con exito", then return True, remote_version
ReadUpdateInfo ==
  /\ ap.pc = "readinfo"
  /\ IF ReadVersion(pending).raised
     THEN /\ ap' = [ap EXCEPT !.pc = "restore", !.err = ErrNoInfo,
                              !.log = @ \o <<"applied", "apply-error">>]
          /\ UNCHANGED <<restartScheduled, applied>>
     ELSE Finish([ap EXCEPT !.log = Append(@, "applied")], TRUE,
                 ReadVersion(pending).value)
  /\ ChecksRest
  /\ UNCHANGED <<fsVars, pending, lastCheck, clockVars, dialogs, cmp, dl>>

\* Mutant of CopyBack: nothing is copied
CopyBackNothing(files, snap, n) == files

\* Mutant of CopyBack: a file still present in the installation is not
\* overwritten
CopyBackMissing(files, snap, n) ==
  [p \in Paths |-> IF /\ snap[p] # Absent
                      /\ files[p] = Absent
                      /\ \E k \in 1..n : files_to_backup[k] = p
                   THEN snap[p] ELSE files[p]]

\* The installation after restore_backup has copied the first n tracked
\* paths found in the backup
CopyBack(files, snap, n) ==
  [p \in Paths |-> IF /\ snap[p] # Absent
                      /\ \E k \in 1..n : files_to_backup[k] = p
                   THEN snap[p] ELSE files[p]]

\* Mutant of FailureMessage: an error of restore_backup replaces the message
FailureMessageOfRestore(err, restored) ==
  IF restored = "ok" THEN err ELSE "Error en restauracion"

\* "return False, str(e)" of apply_update: e is the exception that was
\* caught, whatever restore_backup has returned since
FailureMessage(err, restored) == err

\* The except branch of apply_update: restore_backup, return False, str(e)
RestoreBackup ==
  /\ ap.pc = "restore"
  /\ \/ /\ ~backupDir
        /\ inst' = inst
        /\ Finish([ap EXCEPT !.restored = "nobackup",
                             !.log = @ \o <<"restore-start", "restore-none">>], FALSE,
                  FailureMessage(ap.err, "nobackup"))
     \/ /\ backupDir
        /\ inst' = CopyBack(inst, backup, Len(files_to_backup))
        /\ Finish([ap EXCEPT !.restored = "ok",
                             !.log = @ \o <<"restore-start", "restore-ok">>], FALSE,
                  FailureMessage(ap.err, "ok"))
     \/ /\ backupDir
        /\ \E j \in 1..Len(files_to_backup) :      \* copy2 of file j raises
             /\ backup[files_to_backup[j]] # Absent
             /\ inst' = CopyBack(inst, backup, j - 1)
        /\ Finish([ap EXCEPT !.restored = "failed",
                             !.log = @ \o <<"restore-start", "restore-error">>], FALSE,
                  FailureMessage(ap.err, "failed"))
  /\ ChecksRest
  /\ UNCHANGED <<backupDir, backup, tmpDir, tmp, pending, lastCheck,
                 clockVars, dialogs, cmp, dl>>

\* ------------------------------------------------------------------------
\* A stand-alone call of compare_versions
\* ------------------------------------------------------------------------
DigitChar(d) ==
  CASE d = 0 -> "0" [] d = 1 -> "1" [] d = 2 -> "2" [] d = 3 -> "3"
    [] d = 4 -> "4" [] d = 5 -> "5" [] d = 6 -> "6" [] d = 7 -> "7"
    [] d = 8 -> "8" [] d = 9 -> "9"

\* str(n) for n >= 0
RECURSIVE ToStr(_)
ToStr(n) ==
  IF n < 10 THEN <<DigitChar(n)>>
  ELSE ToStr(n \div 10) \o <<DigitChar(n % 10)>>

\* '.'.join(map(str, parts))
RECURSIVE FormatVersion(_)
FormatVersion(parts) ==
  IF Len(parts) = 1 THEN ToStr(parts[1])
  ELSE ToStr(parts[1]) \o <<".">> \o FormatVersion(Tail(parts))

\* Components drawn for the versions compared: the small ones and one of
\* two digits
CompVals == (0..MaxComp) \cup {10}

RECURSIVE SeqsOfLen(_, _)
SeqsOfLen(S, n) ==
  IF n = 0 THEN {<<>>}
  ELSE {Append(q, x) : q \in SeqsOfLen(S, n - 1), x \in S}

VersionLists == UNION {SeqsOfLen(CompVals, n) : n \in 1..MaxParts}

InitCompare ==
  /\ inst = InitInstall
  /\ backupDir = TRUE
  /\ backup = NoFiles
  /\ tmpDir = TRUE
  /\ tmp = {}
  /\ pending = NoPending
  /\ lastCheck = NoStamp
  /\ now = StartTime
  /\ ticks = 0
  /\ ck = [t \in CheckThreads |-> IdleCheck]
  /\ manualRuns = 0
  /\ autoStarted = FALSE
  /\ ap = IdleApply
  /\ dialogs = <<>>
  /\ restartScheduled = FALSE
  /\ applied = FALSE
  /\ dl = NoDl
  /\ \E a, b \in VersionLists :
       cmp = [a |-> a, b |-> b, v1 |-> FormatVersion(a),
              v2 |-> FormatVersion(b), res |-> <<>>]

CompareVersions ==
  /\ cmp.res = <<>>
  /\ cmp' = [cmp EXCEPT !.res = <<compare_versions(cmp.v1, cmp.v2)>>]
  /\ UNCHANGED <<fsVars, pending, lastCheck, clockVars, ckVars, ap, uiVars,
                 applied, dl>>

\* ------------------------------------------------------------------------
\* A stand-alone urlretrieve(download_url, temp_file, report_progress)
\* ------------------------------------------------------------------------
\* Mutant of report_progress: the percentage is not limited to 100
report_progress_unclamped(count, block_size, total_size) ==
  IF total_size > 0
  THEN <<(count * block_size * 100) \div total_size>>
  ELSE <<>>

\* report_progress: the values it emits through update_progress
report_progress(count, block_size, total_size) ==
  IF total_size > 0
  THEN LET percent == (count * block_size * 100) \div total_size
       IN <<IF percent < 100 THEN percent ELSE 100>>
  ELSE <<>>

\* Block sizes urlretrieve may read with: tiny, the 500 bytes of the
\* specification's example, and the 8 KiB of the library
BlockSizes == {2, 500, 8192}

\* Lengths of the body the server delivers, up to MaxBlocks blocks
BodyLengths(bs) ==
  {0, 1} \cup {k * bs - 1 : k \in 1..MaxBlocks} \cup {k * bs : k \in 1..MaxBlocks}

\* The connection is about to be opened; the server will report the length
\* of the body (Content-Length) or none, which urlretrieve passes on as -1
InitDownload ==
  /\ now = StartTime
  /\ ticks = 0
  /\ ck = [t \in CheckThreads |-> IdleCheck]
  /\ manualRuns = 0
  /\ autoStarted = FALSE
  /\ dialogs = <<>>
  /\ restartScheduled = FALSE
  /\ applied = FALSE
  /\ cmp = NoCmp
  /\ inst = InitInstall
  /\ backupDir = TRUE
  /\ backup = NoFiles
  /\ tmpDir = TRUE
  /\ tmp = {}
  /\ pending = NoPending
  /\ lastCheck = NoStamp
  /\ ap = IdleApply
  /\ \E bs \in BlockSizes : \E len \in BodyLengths(bs) :
       \E total \in {len, -1} :
         dl = [pc |-> "open", bs |-> bs, total |-> total, left |-> len,
               count |-> 0, progress |-> <<>>]

\* urlopen: the connection is made and the hook is called with count 0, or
\* an exception ends download_update
RetrieveOpen ==
  /\ dl.pc = "open"
  /\ \/ dl' = [dl EXCEPT !.pc = "read",
                          !.progress = @ \o report_progress(0, dl.bs, dl.total)]
     \/ dl' = [dl EXCEPT !.pc = "failed"]
  /\ UNCHANGED <<fsVars, pending, lastCheck, clockVars, ckVars, ap, uiVars,
                 applied, cmp>>

\* Sizes the next fp.read(bs) may return: a full block (or all that is
\* left), or one byte when the rest still fits the blocks that remain
ReadSizes ==
  LET full == IF dl.left < dl.bs THEN dl.left ELSE dl.bs
  IN {full} \cup
     {n \in {1} : n < full /\ dl.left - n <= (MaxBlocks - dl.count - 1) * dl.bs}

\* One block is read and written, then the hook is called; or the read raises
RetrieveBlock ==
  /\ dl.pc = "read"
  /\ dl.left > 0
  /\ \/ \E n \in ReadSizes :
          dl' = [dl EXCEPT !.left = @ - n, !.count = @ + 1,
                           !.progress =
                             @ \o report_progress(dl.count + 1, dl.bs, dl.total)]
     \/ dl' = [dl EXCEPT !.pc = "failed"]
  /\ UNCHANGED <<fsVars, pending, lastCheck, clockVars, ckVars, ap, uiVars,
                 applied, cmp>>

\* fp.read returns nothing more: urlretrieve returns
RetrieveEnd ==
  /\ dl.pc = "read"
  /\ dl.left = 0
  /\ dl' = [dl EXCEPT !.pc = "done"]
  /\ UNCHANGED <<fsVars, pending, lastCheck, clockVars, ckVars, ap, uiVars,
                 applied, cmp>>

NextDownload == RetrieveOpen \/ RetrieveBlock \/ RetrieveEnd

SpecDownload == InitDownload /\ [][NextDownload]_vars

\* ------------------------------------------------------------------------
\* create_backup and restore_backup called one after the other, the
\* installation changing in between
\* ------------------------------------------------------------------------
\* What happens to a tracked file between the two calls
Fates == {"keep", "delete", "rewrite"}

\* Any set of tracked files exists when create_backup is called
InitRoundTrip ==
  /\ now = StartTime
  /\ ticks = 0
  /\ ck = [t \in CheckThreads |-> IdleCheck]
  /\ manualRuns = 0
  /\ autoStarted = FALSE
  /\ dialogs = <<>>
  /\ restartScheduled = FALSE
  /\ applied = FALSE
  /\ cmp = NoCmp
  /\ dl = NoDl
  /\ backupDir = TRUE
  /\ backup \in InitBackups
  /\ tmpDir = TRUE
  /\ tmp = {UPDATE_FILE}
  /\ pending = NoPending
  /\ lastCheck = NoStamp
  /\ inst \in {f \in [Paths -> {Absent, "old"}] : f["README.md"] = Absent}
  /\ ap = [IdleApply EXCEPT !.pc = "backup", !.pre = inst]

\* Tracked files, one at least that exists, are deleted or rewritten after
\* create_backup has returned; then the error path of apply_update is taken
AlterFiles ==
  /\ ap.pc = "openzip"
  /\ \E fate \in [Tracked -> Fates] :
       /\ \E p \in Tracked : inst[p] # Absent /\ fate[p] # "keep"
       /\ inst' = [p \in Paths |->
                     IF p \notin Tracked \/ fate[p] = "keep" THEN inst[p]
                     ELSE IF fate[p] = "delete" THEN Absent
                     ELSE "new"]
  /\ ap' = [ap EXCEPT !.pc = "restore", !.err = ErrExtract]
  /\ ChecksRest
  /\ UNCHANGED <<backupDir, backup, tmpDir, tmp, pending, lastCheck,
                 clockVars, uiVars, applied, cmp, dl>>

NextRoundTrip == CreateBackup \/ AlterFiles \/ RestoreBackup

SpecRoundTrip == InitRoundTrip /\ [][NextRoundTrip]_vars

\* ------------------------------------------------------------------------
\* The extraction loop of apply_update on archives of up to MaxNames entries
\* ------------------------------------------------------------------------
\* Archives whose entries overwrite the script or add a file, in any order
\* and with repetitions
LongArchives ==
  UNION {SeqsOfLen({"launcher.py", "README.md"}, n) : n \in 0..MaxNames}

\* create_backup has returned True and apply_update is about to open the
\* downloaded archive
InitExtract ==
  /\ now = StartTime
  /\ ticks = 0
  /\ ck = [t \in CheckThreads |-> IdleCheck]
  /\ manualRuns = 0
  /\ autoStarted = TRUE
  /\ dialogs = <<>>
  /\ restartScheduled = FALSE
  /\ applied = FALSE
  /\ cmp = NoCmp
  /\ dl = NoDl
  /\ inst = InitInstall
  /\ backupDir = TRUE
  /\ backup = Snapshot(InitInstall, Len(files_to_backup))
  /\ tmpDir = TRUE
  /\ tmp = {UPDATE_FILE}
  /\ pending = <<UpdateInfo([version |-> V0010, download_url |-> "url-10"])>>
  /\ lastCheck = Stamp(StartTime)
  /\ \E a \in LongArchives :
       ap = [IdleApply EXCEPT !.pc = "openzip", !.shown = V0010,
                              !.url = "url-10", !.ver = V0010,
                              !.archive = a, !.pre = InitInstall,
                              !.backupOk = "ok"]

NextExtract == OpenArchive \/ ExtractEntry \/ CleanupTempFiles

SpecExtract == InitExtract /\ [][NextExtract]_vars

\* ------------------------------------------------------------------------
\* The program
\* ------------------------------------------------------------------------
CheckStep == \E t \in CheckThreads : CheckFetch(t)

ApplyStep ==
  \/ DownloadBegin
  \/ DownloadFetch
  \/ CreateBackup
  \/ OpenArchive
  \/ ExtractEntry
  \/ CleanupTempFiles
  \/ ReadUpdateInfo
  \/ RestoreBackup

Next ==
  \/ CheckUpdatesOnStart
  \/ ManualCheckUpdates
  \/ CheckStep
  \/ StartUpdateProcess
  \/ DeclineUpdate
  \/ ApplyStep

Spec == Init /\ [][Next]_vars

\* The checks alone, with the clock running
InitTimed ==
  /\ InitThreads
  /\ inst = InitInstall
  /\ backupDir = TRUE
  /\ backup = NoFiles
  /\ tmpDir = TRUE
  /\ tmp = {}
  /\ pending = NoPending
  /\ lastCheck \in {NoStamp, BadStamp, Stamp(StartTime - CHECK_INTERVAL - 1),
                    Stamp(StartTime - CHECK_INTERVAL), Stamp(StartTime)}

NextTimed ==
  \/ CheckUpdatesOnStart
  \/ ManualCheckUpdates
  \/ CheckStep
  \/ DeclineUpdate
  \/ Tick

SpecTimed == InitTimed /\ [][NextTimed]_vars

\* compare_versions alone
SpecCompare == InitCompare /\ [][CompareVersions]_vars

\* The program from one start state; the scheduler lets the apply thread run
InitLive ==
  /\ InitThreads
  /\ inst = InitInstall
  /\ backupDir = TRUE
  /\ backup = NoFiles
  /\ tmpDir = TRUE
  /\ tmp = {"leftover.part"}
  /\ pending = NoPending
  /\ lastCheck = NoStamp

SpecLive == InitLive /\ [][Next]_vars /\ WF_vars(ApplyStep)

\* ------------------------------------------------------------------------
\* Properties
\* ------------------------------------------------------------------------
Entries(a) == {a[k] : k \in 1..Len(a)}

\* v is a dot-separated list of non-empty runs of digits
IsDottedNumber(v) ==
  /\ v # <<>>
  /\ \A k \in 1..Len(v) : v[k] \in Digits \cup {"."}
  /\ v[1] # "." /\ v[Len(v)] # "."
  /\ \A k \in 1..(Len(v) - 1) : ~(v[k] = "." /\ v[k + 1] = ".")

\* The answer r of the server makes the check fail: no connection, no JSON
\* document, or a version that is not a dotted number
CheckInputFails(r) ==
  "error" \in DOMAIN r \/ ~IsDottedNumber(Get(r, "version", V000))

\* Thread t ends a check in this step
CheckReturns(t) == ck[t].pc = "fetch" /\ ck'[t].pc = "done"

\* The backup directory holds exactly the tracked files of f
BackupIsSnapshotOf(f) ==
  /\ backupDir
  /\ \A p \in Paths : backup[p] = IF p \in Tracked THEN f[p] ELSE Absent

\* The cycle that has just ended extracted every entry of its archive
CycleExtractedAll == ap.pc = "done" /\ ap.extracted

\* C1: a cycle whose download succeeded and whose entries were all extracted
\* ends with the single finished event (success, version of the pending record)
C1_SuccessReported ==
  CycleExtractedAll =>
    /\ Len(ap.fin) = 1
    /\ ap.fin[1].success
    /\ ap.fin[1].message = ap.ver

\* C2: a restart is scheduled only after some apply cycle has reached Done
C2_RestartOnlyAfterDone == restartScheduled => applied

C4_ArchiveContentKept ==
  CycleExtractedAll => \A p \in Entries(ap.archive) : inst[p] = "new"

C7_ApplyAlwaysFinishes ==
  /\ [](Len(ap.fin) <= 1)
  /\ [](ap.pc = "done" => Len(ap.fin) = 1)
  /\ (ap.pc = "download") ~> (ap.pc = "done")

C7_Witness ==
  ap.pc = "done" /\ ap.cleaned = "failed" /\ Len(ap.fin) = 1

\* C8: the step in which a check fails (no connection, malformed manifest,
\* unparsable version) leaves update_info.json as it was, emits neither
\* update-available nor finished, and the call returns
C8_FailedCheckIsHarmless ==
  [][\A t \in CheckThreads :
       (CheckReturns(t) /\ CheckInputFails(ck'[t].data)) =>
         /\ pending' = pending
         /\ ck'[t].avail = <<>> /\ ck'[t].fin = <<>>
         /\ dialogs' = dialogs
         /\ restartScheduled' = restartScheduled
         /\ ck'[t].nstatus > ck[t].nstatus]_vars

C8_Witness ==
  \E t \in CheckThreads :
    /\ ck[t].pc = "done" /\ ck[t].fetched
    /\ Get(ck[t].data, "version", V000) = V1x
    /\ pending # NoPending

RefCompare(a, b) ==
  LET n == IF Len(a) > Len(b) THEN Len(a) ELSE Len(b)
      A == [k \in 1..n |-> IF k <= Len(a) THEN a[k] ELSE 0]
      B == [k \in 1..n |-> IF k <= Len(b) THEN b[k] ELSE 0]
      D == {k \in 1..n : A[k] # B[k]}
  IN IF D = {} THEN 0
     ELSE LET m == CHOOSE k \in D : \A j \in D : k <= j
          IN IF A[m] > B[m] THEN 1 ELSE -1

\* C10: compare_versions agrees with the reference comparison on dotted
\* numbers, is antisymmetric, and gives the values the specification lists
C10_CompareMatchesReference ==
  /\ cmp.res # <<>> =>
       /\ ~cmp.res[1].raised
       /\ cmp.res[1].value = RefCompare(cmp.a, cmp.b)
       /\ cmp.res[1].value = 0 - compare_versions(cmp.v2, cmp.v1).value
  /\ compare_versions(<<"1", ".", "2", ".", "0">>, <<"1", ".", "2">>) = Returns(0)
  /\ compare_versions(<<"1", ".", "3", ".", "0">>, <<"1", ".", "2", ".", "9">>)
       = Returns(1)
  /\ compare_versions(<<"1", ".", "2">>, <<"1", ".", "2", ".", "1">>)
       = Returns(-1)
  /\ compare_versions(VERSION, VERSION) = Returns(0)

C10_Witness ==
  /\ cmp.res # <<>>
  /\ Len(cmp.a) < Len(cmp.b)
  /\ \A k \in 1..Len(cmp.a) : cmp.a[k] = cmp.b[k]
  /\ cmp.a[1] = 10
  /\ cmp.res[1].value = -1

\* Delays tried between a recorded check and the next question
Gaps ==
  {0, 1, CHECK_INTERVAL - 1, CHECK_INTERVAL, CHECK_INTERVAL + 1,
   2 * CHECK_INTERVAL}

C12_BackupRestoreRoundTrip ==
  /\ ap.backupOk = "ok" => BackupIsSnapshotOf(ap.pre)
  /\ (ap.pc = "done" /\ ap.backupOk = "ok" /\ ap.restored = "ok") =>
       \A p \in Tracked : ap.pre[p] # Absent => inst[p] = ap.pre[p]

\* launcher.py and assets/fondo.png were saved, assets/logo.png did not
\* exist; restore_backup has just brought both files back
C12_Witness ==
  /\ ap.pc = "done" /\ ap.backupOk = "ok" /\ ap.restored = "ok"
  /\ ap.pre["launcher.py"] = "old" /\ ap.pre["assets/fondo.png"] = "old"
  /\ ap.pre["assets/logo.png"] = Absent /\ backup["assets/logo.png"] = Absent
  /\ inst["launcher.py"] = "old" /\ inst["assets/fondo.png"] = "old"

\* C13: with a total size above 0 every value report_progress emits lies in
\* 0..100, the values never decrease and the last one of a completed
\* download is 100; with no total size (<= 0) nothing is emitted
C13_DownloadProgress ==
  /\ \A k \in 1..Len(dl.progress) : dl.progress[k] \in 0..100
  /\ \A k \in 1..(Len(dl.progress) - 1) : dl.progress[k] <= dl.progress[k + 1]
  /\ (dl.pc = "done" /\ dl.total > 0) =>
       /\ dl.progress # <<>>
       /\ dl.progress[Len(dl.progress)] = 100
  /\ dl.total <= 0 => dl.progress = <<>>

\* 1000 bytes announced and delivered in two blocks of 500
C13_Witness ==
  /\ dl.pc = "done" /\ dl.bs = 500 /\ dl.total = 1000
  /\ dl.progress = <<0, 50, 100>>

\* C14: a cycle that ends in failure has called restore_backup before its
\* finished event, and the message of the event is the message of the error
\* that stopped the cycle
C14_FailureRestoresFirst ==
  (ap.pc = "done" /\ Len(ap.fin) = 1 /\ ~ap.fin[1].success) =>
    /\ ap.restored # "none"
    /\ ap.fin[1].message = ap.err

\* C15: when the extraction failed and restore_backup failed too, or found
\* no backup directory, the cycle ends with the one event (False, message of
\* the extraction error)
C15_RestoreErrorDoesNotMask ==
  (ap.pc = "done" /\ ap.err = ErrExtract
     /\ ap.restored \in {"failed", "nobackup"}) =>
    ap.fin = <<FinishedEvent("apply", FALSE, ErrExtract)>>

\* The second entry could not be extracted and a copy of restore_backup
\* raised
C15_Witness ==
  /\ ap.pc = "done" /\ ap.err = ErrExtract /\ ap.restored = "failed"
  /\ ap.i = 1
  /\ ap.fin # <<>> /\ ap.fin[1].message = ErrExtract

\* C16: a create_backup that failed does not end the cycle: status messages
\* are emitted, no finished event, and the thread goes on to the archive;
\* the error path is entered only with an error of the archive, of an entry
\* or of the final read, and the finished event reports that error, or
\* success when there was none
C16_BackupFailureNotFatal ==
  /\ (ap.backupOk = "failed" /\ ap.pc = "openzip") =>
       /\ ap.fin = <<>>
       /\ SubSeq(ap.log, Len(ap.log) - 1, Len(ap.log))
            = <<"backup-error", "no-backup">>
  /\ (ap.backupOk = "failed" /\ ap.pc = "restore") =>
       ap.err \in {ErrBadZip, ErrExtract, ErrNoInfo}
  /\ (ap.backupOk = "failed" /\ ap.pc = "done") =>
       /\ ap.err \in {"", ErrBadZip, ErrExtract, ErrNoInfo}
       /\ ap.extracted <=> ap.err \in {"", ErrNoInfo}
       /\ Len(ap.fin) = 1
       /\ IF ap.err = "" THEN ap.fin[1].success
          ELSE ~ap.fin[1].success /\ ap.fin[1].message = ap.err

\* create_backup failed, every entry was extracted and the cycle ended with
\* success
C16_Witness ==
  /\ ap.pc = "done" /\ ap.backupOk = "failed" /\ ap.extracted
  /\ Len(ap.archive) >= 1
  /\ ap.fin # <<>> /\ ap.fin[1].success

\* The user closes an update dialog without accepting in this step
Declines == Len(dialogs') = Len(dialogs) - 1 /\ ap' = SettledAp(ap)

\* An apply cycle ends in this step
CycleEnds == ap.pc # "done" /\ ap'.pc = "done"

\* C17: update_info.json is gone once the user has declined the prompt, and
\* once an apply cycle has ended
C17_PendingDeletedAtEnd ==
  [][(Declines \/ CycleEnds) => pending' = NoPending]_vars

\* C18: a check whose manifest has a version with a segment that is no
\* number returns after its status messages: no update-available event, no
\* record written, no finished event
C18_NonNumericNotNewer ==
  \A t \in CheckThreads :
    (/\ ck[t].pc = "done" /\ ck[t].fetched
     /\ "version" \in DOMAIN ck[t].data
     /\ ~IsDottedNumber(ck[t].data.version)) =>
      /\ ck[t].outcome = "parse"
      /\ ck[t].avail = <<>>
      /\ ~ck[t].wrote
      /\ ck[t].fin = <<>>

\* The manifest said "1.x"; no dialog is open and no record exists
C18_Witness ==
  \E t \in CheckThreads :
    /\ ck[t].pc = "done" /\ ck[t].fetched
    /\ Get(ck[t].data, "version", V000) = V1x
    /\ ck[t].outcome = "parse"
    /\ pending = NoPending /\ dialogs = <<>> /\ ~restartScheduled

\* The place of a signal in the order of one cycle: download start, download
\* progress, download completed, backup start, backup result, extraction
\* progress, cleanup, finished; 0 for the other signals
Rank(tag) ==
  CASE tag = "download-start" -> 1
    [] tag = "download-progress" -> 2
    [] tag = "download-done" -> 3
    [] tag = "backup-start" -> 4
    [] tag \in {"backup-ok", "backup-error"} -> 5
    [] tag = "extract-progress" -> 6
    [] tag = "cleaned" -> 7
    [] tag = "finished" -> 8
    [] OTHER -> 0

\* C19: the signals of a cycle come in the order of the steps; one progress
\* signal per entry extracted so far, none before create_backup has
\* returned; the cleanup only after the last entry; nothing after finished
C19_EventsInCausalOrder ==
  /\ \A j, k \in 1..Len(ap.log) :
       (j < k /\ Rank(ap.log[j]) > 0 /\ Rank(ap.log[k]) > 0) =>
         Rank(ap.log[j]) <= Rank(ap.log[k])
  /\ Cardinality({k \in 1..Len(ap.log) : ap.log[k] = "extract-progress"})
       = ap.i
  /\ ap.i > 0 => ap.backupOk # "none"
  /\ ap.cleaned # "none" => ap.i = Len(ap.archive)
  /\ \A k \in 1..Len(ap.log) : ap.log[k] = "finished" => k = Len(ap.log)
  /\ ap.pc = "done" <=> (ap.log # <<>> /\ ap.log[Len(ap.log)] = "finished")

\* A cycle with two entries that went through every step
C19_Witness ==
  /\ ap.pc = "done" /\ ap.i = 2 /\ ap.cleaned = "ok"
  /\ SubSeq(ap.log, 1, 10)
       = <<"download-start", "download-progress", "download-done",
           "apply-start", "backup-start", "backup-ok", "extract-progress",
           "extract-progress", "cleaned", "applied">>
  /\ ap.log[Len(ap.log)] = "finished"

\* C20: once cleanup_temp_files has run, the cycle does not enter the error
\* path: restore_backup is not called and the cycle ends with success
C20_NoFailureAfterCleanup ==
  ap.cleaned # "none" =>
    /\ ap.pc # "restore"
    /\ ap.restored = "none"
    /\ ap.pc = "done" => (Len(ap.fin) = 1 /\ ap.fin[1].success)

\* C21: the step in which create_backup returns True leaves in the backup
\* directory each tracked file that exists, with its content, and nothing
\* else: no file of the snapshot that was there before
C21_BackupFullyReplaced ==
  [][(ap.pc = "backup" /\ ap'.backupOk = "ok") =>
       /\ backupDir'
       /\ \A p \in Paths :
            backup'[p] = IF p \in Tracked THEN inst[p] ELSE Absent]_vars

\* create_backup has just returned True; assets/background.png, which an
\* earlier snapshot may hold, does not exist and is not in the backup, and
\* the one tracked file that exists is
C21_Witness ==
  /\ ap.pc = "openzip" /\ ap.backupOk = "ok"
  /\ inst["assets/background.png"] = Absent
  /\ backup["assets/background.png"] = Absent
  /\ inst["launcher.py"] = Absent /\ backup["launcher.py"] = Absent
  /\ inst["assets/logo.png"] = "old" /\ backup["assets/logo.png"] = "old"

\* C22: a restore_backup that copied files back found in the backup
\* directory the complete snapshot its own cycle took: create_backup had
\* returned True and the backup holds every tracked file as it was when the
\* apply started
C22_RestoresOwnSnapshot ==
  (/\ ap.pc = "done" /\ ap.restored = "ok"
   /\ \E p \in Tracked : backup[p] # Absent) =>
    /\ ap.backupOk = "ok"
    /\ BackupIsSnapshotOf(ap.pre)

\* The check_for_updates runs that are past the throttle and have not
\* returned
ChecksInFlight == {t \in CheckThreads : ck[t].pc = "fetch"}

\* C23: at most one check_for_updates run is in flight, also when the
\* start-up timer and the manual button both start one
C23_SingleFlight == Cardinality(ChecksInFlight) <= 1

\* C24: a download_update that found a record with a download URL is never
\* stopped by the state an earlier cycle left temp_updates in: it does not
\* end with the error of a missing temp_updates directory
C24_DownloadRestartable ==
  ap.pc = "done" => ap.err # ErrNoTemp

\* C25: the k-th progress value of an extraction of n >= 1 entries is
\* floor(k * 100 / n), one value per entry extracted; the values lie in
\* 0..100, never decrease, and the last one of a complete extraction is
\* 100; an archive without entries gives no value and no extraction error
C25_ExtractionProgress ==
  LET n == Len(ap.archive)
  IN /\ Len(ap.prog) = ap.i
     /\ \A k \in 1..Len(ap.prog) :
          /\ ap.prog[k] * n <= k * 100
          /\ k * 100 < (ap.prog[k] + 1) * n
          /\ ap.prog[k] \in 0..100
     /\ \A k \in 1..(Len(ap.prog) - 1) : ap.prog[k] <= ap.prog[k + 1]
     /\ (ap.extracted /\ n >= 1) => ap.prog[n] = 100
     /\ n = 0 => (ap.prog = <<>> /\ ap.err # ErrExtract)
     /\ ap.extracted => ap.i = n

\* Three entries were extracted: 33, 66 and 100 were emitted
C25_Witness ==
  /\ ap.extracted /\ Len(ap.archive) = 3
  /\ ap.prog = <<33, 66, 100>>

\* An archive without entries went through the loop and on to the cleanup
C25_WitnessEmpty ==
  /\ ap.extracted /\ ap.archive = <<>> /\ ap.prog = <<>> /\ ap.err = ""

\* The download_update of the cycle ends in this step with a failure
DownloadFailsNow == ap.pc \in {"download", "fetch"} /\ ap'.pc = "done"

\* Signals of create_backup, of the extraction and of what follows them
AfterDownloadTags ==
  {"apply-start", "backup-start", "backup-ok", "backup-error", "no-backup",
   "extract-progress", "apply-error", "cleaned", "applied", "restore-start",
   "restore-ok", "restore-none", "restore-error"}

\* C26: the step in which download_update fails ends the cycle with the one
\* event finished(False, ...), with no create_backup and no extraction: the
\* installation and the backup are as they were; and a cycle gets to
\* create_backup only after "Descarga completada"
C26_NoApplyWithoutDownload ==
  /\ [][DownloadFailsNow =>
         /\ inst' = inst /\ inst' = ap'.pre
         /\ backup' = backup /\ backupDir' = backupDir
         /\ ap'.backupOk = "none" /\ ap'.i = 0 /\ ap'.prog = <<>>
         /\ Len(ap'.fin) = 1 /\ ~ap'.fin[1].success
         /\ \A k \in 1..Len(ap'.log) : ap'.log[k] \notin AfterDownloadTags]_vars
  /\ [](ap.pc \in {"download", "fetch"} =>
         \A k \in 1..Len(ap.log) : ap.log[k] \notin AfterDownloadTags)
  /\ []((\E k \in 1..Len(ap.log) : ap.log[k] \in AfterDownloadTags) =>
         (Len(ap.log) >= 3 /\ ap.log[3] = "download-done"))

\* urlretrieve raised with an earlier snapshot in the backup directory; the
\* cycle has ended and both the snapshot and the installation are untouched
C26_Witness ==
  /\ ap.pc = "done" /\ ap.err = ErrUrl
  /\ ap.fin = <<FinishedEvent("apply", FALSE, ErrDownload)>>
  /\ ap.backupOk = "none"
  /\ backup["launcher.py"] = "prev"
  /\ inst = InitInstall

\* What a cycle that extracted every entry reports when no check writes
\* update_info.json while it runs: the record it downloaded from is still
\* there after a cleanup that raised, and gone after one that did not
SoloOutcome(a) ==
  IF a.cleaned = "ok" THEN FinishedEvent("apply", FALSE, ErrNoInfo)
  ELSE FinishedEvent("apply", TRUE, a.ver)

\* C27: a cycle that extracted every entry reports what it reports when it
\* runs alone, whether or not a check_for_updates run wrote the pending
\* record between its download and its final read
C27_OutcomeIgnoresChecks ==
  CycleExtractedAll => ap.fin = <<SoloOutcome(ap)>>

\* C28: after a cycle that failed, with a snapshot taken by its own
\* create_backup and a restore_backup that ran to its end, the installation
\* is what it was when the apply started: every path, tracked or not, has
\* its earlier content or is absent again
C28_FailureLeavesNoNewFile ==
  (/\ ap.pc = "done" /\ ap.backupOk = "ok" /\ ap.restored = "ok"
   /\ ap.err = ErrExtract) =>
    inst = ap.pre

\* C29: when perform_update starts for a prompt that showed version v,
\* update_info.json holds a record whose remote_version is v
C29_PendingMatchesPrompt ==
  ap.pc = "download" =>
    /\ pending # NoPending
    /\ pending[1].remote_version = ap.shown

\* Thread t enters check_for_updates in this step
CheckStarts(t) == Settled(ck)[t].pc = "idle" /\ ck'[t].pc # "idle"

\* last_check.txt holds a time no more than CHECK_INTERVAL ago
CheckedRecently ==
  lastCheck.kind = "time" /\ now - lastCheck.t <= CHECK_INTERVAL

\* C30: an automatic check_for_updates entered while the last check is
\* recent returns at once: no fetch, no status, no update-available, no
\* finished event, update_info.json and last_check.txt as they were; any
\* other run, a forced one whatever the timestamp, goes on to the fetch,
\* and every run that was not turned away has fetched when it returns
C30_ThrottledCheckIsSilent ==
  /\ [][\A t \in CheckThreads :
          CheckStarts(t) =>
            IF ~ck'[t].force /\ CheckedRecently
            THEN /\ ck'[t].pc = "done" /\ ~ck'[t].fetched
                 /\ ck'[t].nstatus = 0
                 /\ ck'[t].avail = <<>> /\ ck'[t].fin = <<>>
                 /\ ~ck'[t].wrote /\ ck'[t].stamp = <<>>
                 /\ pending' = pending /\ lastCheck' = lastCheck
                 /\ dialogs' = dialogs
                 /\ restartScheduled' = restartScheduled
            ELSE ck'[t].pc = "fetch" /\ ck'[t].nstatus = 2]_vars
  /\ [](\A t \in CheckThreads :
          (ck[t].pc = "done" /\ ck[t].outcome # "throttled") => ck[t].fetched)
  /\ [](\A t \in CheckThreads :
          (ck[t].pc # "idle" /\ ck[t].force) => ck[t].outcome # "throttled")

\* The timer's check has just found the time of a recent check and returned
\* with nothing done, while the forced check started before it, with the
\* same timestamp, is at its fetch
C30_Witness ==
  /\ ck["auto"].pc = "done" /\ ck["auto"].outcome = "throttled"
  /\ ~ck["auto"].fetched /\ ck["auto"].nstatus = 0
  /\ ck["manual"].pc = "fetch" /\ ck["manual"].force
  /\ lastCheck = Stamp(StartTime) /\ now = StartTime
  /\ pending = NoPending /\ dialogs = <<>>

====
